---------------------------- MODULE Spec2Model ----------------------------
(***************************************************************************)
(* Frame lifecycle of VulkanEngine (src/src/vk_engine.cpp): init(), the    *)
(* run() loop, the steps of draw(), the GPU / presentation engine that     *)
(* consume what draw() hands them, and cleanup().                          *)
(*                                                                         *)
(* The control thread is one process whose position is pc.  The graphics   *)
(* queue and the presentation engine run concurrently with it.             *)
(***************************************************************************)
EXTENDS Integers, Sequences, FiniteSets, TLC

(***************************************************************************)
(* Bounds of the model and program constants.                              *)
(***************************************************************************)
\* Number of frames the loop may draw before the model stops it.
MaxFrames == 4

\* Number of images of the swapchain (chosen by the driver).
NumImages == 3

\* vk_engine.h: constexpr unsigned int FRAME_OVERLAP = 2 (spec: N = 2).
FRAME_OVERLAP == 2

Slots == 0 .. (FRAME_OVERLAP - 1)

Images == 0 .. (NumImages - 1)

\* The deletion queues: one per slot, and the global one.
MainQueue == FRAME_OVERLAP

Queues == Slots \cup {MainQueue}

\* Value of swapchainImageIndex before an acquire has written it.
NoImage == NumImages

VARIABLES
    pc,                 \* position of the control thread
    loadedEngine,       \* the global VulkanEngine* ("nullptr" or "engine")
    isInitialized,      \* _isInitialized
    frameNumber,        \* _frameNumber
    bQuit,              \* run(): bQuit
    stop_rendering,     \* stop_rendering
    renderFence,        \* _frames[i]._renderFence: TRUE = signaled
    swapchainSemaphore, \* _frames[i]._swapchainSemaphore: TRUE = signaled
    renderSemaphore,    \* _frames[i]._renderSemaphore: TRUE = signaled
    mainCommandBuffer,  \* _frames[i]._mainCommandBuffer: lifecycle state
    frameDeletionQueue, \* _frames[i]._deletionQueue: sequence of callbacks
    mainDeletionQueue,  \* _mainDeletionQueue: sequence of callbacks
    swapchainImageIndex,\* draw(): swapchainImageIndex
    images,             \* state of each swapchain image
    acquirePending,     \* semaphore signals the presentation engine still owes
    graphicsQueue,      \* _graphicsQueue: submissions not yet finished, in order
    presentQueue,       \* present requests not yet processed, in order
    lastCall,           \* the API call that returned last
    lastResult,         \* its VkResult
    created,            \* resources in order of creation
    destroyed,          \* resources in order of destruction
    cleanupI,           \* cleanup(): loop variable i
    deviceIdleWaited,   \* vkDeviceWaitIdle has returned in cleanup()
    cleanupFlushCount,  \* flushes cleanup() made of each deletion queue
    imageLayout,        \* layout each image is in after the commands recorded
    objects,            \* VulkanEngine objects of a client that owns several
    \* ---- history, observed by the properties only ----
    minimized,          \* last window event polled: MINIMIZED (TRUE) / RESTORED
    stages,             \* stages the current/last draw() call went through
    slotsUsed,          \* slots get_current_frame() returned in that call
    frameAtStart,       \* _frameNumber when that call began
    slotLog,            \* the slot of each call of draw(), in order of the calls
    flushLog,           \* per-slot deletion queue flushes
    resetLog,           \* fence / command buffer resets
    gpuLog,             \* what the GPU and the presentation engine did
    recordLog,          \* the commands draw() recorded, with the layouts found
    callLog             \* the calls the client made on its objects, in order

vars == << pc, loadedEngine, isInitialized, frameNumber, bQuit, stop_rendering,
           renderFence, swapchainSemaphore, renderSemaphore, mainCommandBuffer,
           frameDeletionQueue, mainDeletionQueue, swapchainImageIndex, images,
           acquirePending, graphicsQueue, presentQueue, lastCall, lastResult,
           created, destroyed, cleanupI,
                    deviceIdleWaited, cleanupFlushCount,
           imageLayout, objects,
           minimized, stages, slotsUsed, frameAtStart, slotLog, flushLog,
           resetLog, gpuLog, recordLog, callLog >>

vars_but_pc ==
    << loadedEngine, isInitialized, frameNumber, bQuit, stop_rendering,
       renderFence, swapchainSemaphore, renderSemaphore, mainCommandBuffer,
       frameDeletionQueue, mainDeletionQueue, swapchainImageIndex, images,
       acquirePending, graphicsQueue, presentQueue, lastCall, lastResult,
       created, destroyed, cleanupI, deviceIdleWaited, cleanupFlushCount,
       imageLayout, objects, minimized, stages, slotsUsed, frameAtStart,
       slotLog, flushLog, resetLog, gpuLog, recordLog, callLog >>

\* The engine object driven by main(), and the objects of a client.
clientVars == << objects, callLog >>

\* Layouts of the images and the record of the commands that changed them.
layoutVars == << imageLayout, recordLog >>

engineVars == << loadedEngine, isInitialized >>

loopVars == << bQuit, stop_rendering, minimized >>

syncVars == << renderFence, swapchainSemaphore, renderSemaphore >>

gpuVars == << images, acquirePending, graphicsQueue, presentQueue >>

queueVars == << frameDeletionQueue, mainDeletionQueue >>

resVars == << created, destroyed, cleanupI, deviceIdleWaited, cleanupFlushCount >>

callVars == << lastCall, lastResult >>

drawHist == << stages, slotsUsed, frameAtStart, slotLog >>

logVars == << flushLog, resetLog, gpuLog >>

(***************************************************************************)
(* VkResult and VK_CHECK.                                                  *)
(***************************************************************************)
VK_SUCCESS == "VK_SUCCESS"

VK_TIMEOUT == "VK_TIMEOUT"

VK_SUBOPTIMAL_KHR == "VK_SUBOPTIMAL_KHR"

VK_ERROR_OUT_OF_DATE_KHR == "VK_ERROR_OUT_OF_DATE_KHR"

VK_ERROR_DEVICE_LOST == "VK_ERROR_DEVICE_LOST"

VK_ERROR_OUT_OF_DEVICE_MEMORY == "VK_ERROR_OUT_OF_DEVICE_MEMORY"

\* VK_CHECK(x) (vk_types.h): a result other than VK_SUCCESS prints the error
\* and aborts the process.
VK_CHECK_aborts(err) == err # VK_SUCCESS

\* get_current_frame() (vk_engine.h): _frames[_frameNumber % FRAME_OVERLAP].
get_current_frame == frameNumber % FRAME_OVERLAP

(***************************************************************************)
(* Resources, named as << kind, index >>.                                  *)
(***************************************************************************)
Res(kind) == << kind, 0 >>

SlotRes(kind, i) == << kind, i >>

\* DeletionQueue::flush() (vk_engine.h): runs the callbacks in reverse order
\* of registration; the queue is empty afterwards.
RECURSIVE Reverse(_)
Reverse(s) == IF s = << >> THEN << >> ELSE Reverse(Tail(s)) \o << Head(s) >>

\* What each registered callback destroys, in order.
CallbackDestroys(cb) ==
    CASE cb = "destroyAllocator" -> << Res("allocator") >>
      [] cb = "destroyDrawImage" -> << Res("drawImageView"), Res("drawImage") >>
      [] OTHER -> << >>

RECURSIVE RunCallbacks(_)
RunCallbacks(cbs) ==
    IF cbs = << >> THEN << >>
    ELSE CallbackDestroys(Head(cbs)) \o RunCallbacks(Tail(cbs))

DeletionQueue_flush(q) == RunCallbacks(Reverse(q))

(***************************************************************************)
(* Image layouts.                                                          *)
(***************************************************************************)
VK_IMAGE_LAYOUT_UNDEFINED == "VK_IMAGE_LAYOUT_UNDEFINED"

VK_IMAGE_LAYOUT_GENERAL == "VK_IMAGE_LAYOUT_GENERAL"

VK_IMAGE_LAYOUT_TRANSFER_SRC_OPTIMAL == "VK_IMAGE_LAYOUT_TRANSFER_SRC_OPTIMAL"

VK_IMAGE_LAYOUT_TRANSFER_DST_OPTIMAL == "VK_IMAGE_LAYOUT_TRANSFER_DST_OPTIMAL"

VK_IMAGE_LAYOUT_PRESENT_SRC_KHR == "VK_IMAGE_LAYOUT_PRESENT_SRC_KHR"

\* _drawImage.image, numbered after the images of the swapchain.
DrawImage == NumImages + 1

LayoutImages == Images \cup {DrawImage}

(***************************************************************************)
(* VulkanEngine objects of a client that owns more than one.               *)
(***************************************************************************)
Engines == {"engine", "engine2"}

\* A VulkanEngine as constructed: _isInitialized{ false }, an empty
\* _mainDeletionQueue; nothing destroyed.  History: `live` notes that init()
\* was called on the object and cleanup() was not called on it since;
\* `again` notes that a cleanup() of the object made destruction calls while
\* the object was not live.
NewEngine ==
    [isInitialized |-> FALSE, mainDeletionQueue |-> << >>,
     destroyed |-> << >>, live |-> FALSE, again |-> FALSE]

(***************************************************************************)
(* Initial state: the engine object as constructed, nothing initialised.   *)
(***************************************************************************)
InitVars ==
    /\ loadedEngine = "nullptr"
    /\ isInitialized = FALSE
    /\ frameNumber = 0
    /\ bQuit = FALSE
    /\ stop_rendering = FALSE
    /\ renderFence = [s \in Slots |-> FALSE]
    /\ swapchainSemaphore = [s \in Slots |-> FALSE]
    /\ renderSemaphore = [s \in Slots |-> FALSE]
    /\ mainCommandBuffer = [s \in Slots |-> "none"]
    /\ frameDeletionQueue = [s \in Slots |-> << >>]
    /\ mainDeletionQueue = << >>
    /\ swapchainImageIndex = NoImage
    /\ images = [i \in Images |-> "none"]
    /\ acquirePending = {}
    /\ graphicsQueue = << >>
    /\ presentQueue = << >>
    /\ lastCall = "none"
    /\ lastResult = VK_SUCCESS
    /\ created = << >>
    /\ destroyed = << >>
    /\ cleanupI = 0
    /\ deviceIdleWaited = FALSE
    /\ cleanupFlushCount = [q \in Queues |-> 0]
    /\ minimized = FALSE
    /\ stages = << >>
    /\ slotsUsed = {}
    /\ frameAtStart = 0
    /\ slotLog = << >>
    /\ imageLayout = [i \in LayoutImages |-> VK_IMAGE_LAYOUT_UNDEFINED]
    /\ recordLog = {}
    /\ objects = [e \in Engines |-> NewEngine]
    /\ callLog = << >>
    /\ flushLog = {}
    /\ resetLog = {}
    /\ gpuLog = {}

\* main(): the engine is constructed, init() is about to be called.
Init == pc = "init" /\ InitVars

\* The outcome of a checked call: abort on failure, else go on to `next`.
Checked(call, r, next) ==
    /\ lastCall' = call
    /\ lastResult' = r
    /\ pc' = IF VK_CHECK_aborts(r) THEN "aborted" ELSE next

(***************************************************************************)
(* init()                                                                  *)
(***************************************************************************)
\* init(), lines 28-45: the assert, loadedEngine = this, SDL window.
init ==
    /\ pc = "init"
    /\ loadedEngine = "nullptr"
    /\ loadedEngine' = "engine"
    /\ created' = created \o << Res("window") >>
    /\ pc' = "init_vulkan"
    /\ UNCHANGED << clientVars, layoutVars, isInitialized, frameNumber, loopVars, syncVars,
                    mainCommandBuffer, queueVars, swapchainImageIndex, gpuVars,
                    callVars, destroyed, cleanupI,
                    deviceIdleWaited, cleanupFlushCount,
                    drawHist, logVars >>

\* init_vulkan(): instance, debug messenger, surface, device, allocator;
\* the allocator's destruction is registered in the main deletion queue.
init_vulkan ==
    /\ pc = "init_vulkan"
    /\ created' = created \o << Res("instance"), Res("debug_messenger"),
                                Res("surface"), Res("device"), Res("allocator") >>
    /\ mainDeletionQueue' = Append(mainDeletionQueue, "destroyAllocator")
    /\ pc' = "init_swapchain"
    /\ UNCHANGED << clientVars, layoutVars, engineVars, frameNumber, loopVars, syncVars,
                    mainCommandBuffer, frameDeletionQueue, swapchainImageIndex,
                    gpuVars, callVars, destroyed, cleanupI,
                    deviceIdleWaited, cleanupFlushCount,
                    drawHist, logVars >>

\* Mutant: the destruction of the draw image is registered ahead of what the
\* queue already holds.
RegisterDrawImage_first(q) == << "destroyDrawImage" >> \o q

\* _mainDeletionQueue.push_function([=]() { vkDestroyImageView ...;
\* vmaDestroyImage ...; }), lines 403-408.
RegisterDrawImage(q) == Append(q, "destroyDrawImage")

\* init_swapchain(): create_swapchain(), the draw image and its view; their
\* destruction is registered in the main deletion queue.
init_swapchain ==
    /\ pc = "init_swapchain"
    /\ \E r \in {VK_SUCCESS, VK_ERROR_OUT_OF_DEVICE_MEMORY} :
         /\ Checked("vkCreateImageView", r, "init_commands")
         /\ created' = created \o
              << Res("swapchain"), Res("swapchainImageViews"), Res("drawImage") >>
              \o (IF r = VK_SUCCESS THEN << Res("drawImageView") >> ELSE << >>)
         /\ mainDeletionQueue' =
              IF r = VK_SUCCESS
              THEN RegisterDrawImage(mainDeletionQueue)
              ELSE mainDeletionQueue
    /\ images' = [i \in Images |-> "available"]
    /\ UNCHANGED << clientVars, layoutVars, engineVars, frameNumber, loopVars, syncVars,
                    mainCommandBuffer, frameDeletionQueue, swapchainImageIndex,
                    acquirePending, graphicsQueue, presentQueue,
                    destroyed, cleanupI,
                    deviceIdleWaited, cleanupFlushCount,
                    drawHist, logVars >>

\* Resources init_commands() creates for slot i, in order.
CommandResources(i) == << SlotRes("commandPool", i), SlotRes("mainCommandBuffer", i) >>

\* for (int i = 0; i < FRAME_OVERLAP; i++), lines 309-317.
RECURSIVE CommandResourcesFrom(_)
CommandResourcesFrom(i) ==
    IF i >= FRAME_OVERLAP THEN << >>
    ELSE CommandResources(i) \o CommandResourcesFrom(i + 1)

\* init_commands(): one command pool and one command buffer per slot.
init_commands ==
    /\ pc = "init_commands"
    /\ \E r \in {VK_SUCCESS, VK_ERROR_OUT_OF_DEVICE_MEMORY} :
         /\ Checked("vkCreateCommandPool", r, "init_sync_structures")
         /\ IF r = VK_SUCCESS
            THEN /\ created' = created \o CommandResourcesFrom(0)
                 /\ mainCommandBuffer' = [s \in Slots |-> "initial"]
            ELSE UNCHANGED << created, mainCommandBuffer >>
    /\ UNCHANGED << clientVars, layoutVars, engineVars, frameNumber, loopVars, syncVars, queueVars,
                    swapchainImageIndex, gpuVars, destroyed, cleanupI,
                    deviceIdleWaited, cleanupFlushCount,
                    drawHist, logVars >>

\* Resources init_sync_structures() creates for slot i, in order.
SyncResources(i) ==
    << SlotRes("renderFence", i), SlotRes("renderSemaphore", i),
       SlotRes("swapchainSemaphore", i) >>

\* for (int i = 0; i < FRAME_OVERLAP; i++), lines 330-336.
RECURSIVE SyncResourcesFrom(_)
SyncResourcesFrom(i) ==
    IF i >= FRAME_OVERLAP THEN << >>
    ELSE SyncResources(i) \o SyncResourcesFrom(i + 1)

\* Mutant: the fences are created without VK_FENCE_CREATE_SIGNALED_BIT.
FenceCreatedSignaled_unsignaled == FALSE

\* vkinit::fence_create_info(VK_FENCE_CREATE_SIGNALED_BIT), line 327.
FenceCreatedSignaled == TRUE

\* init_sync_structures(): per slot a fence created signaled and two
\* semaphores; then init() sets _isInitialized (line 56).
init_sync_structures ==
    /\ pc = "init_sync_structures"
    /\ \E r \in {VK_SUCCESS, VK_ERROR_OUT_OF_DEVICE_MEMORY} :
         /\ Checked("vkCreateFence", r, "run_while")
         /\ IF r = VK_SUCCESS
            THEN /\ created' = created \o SyncResourcesFrom(0)
                 /\ renderFence' = [s \in Slots |-> FenceCreatedSignaled]
                 /\ isInitialized' = TRUE
            ELSE UNCHANGED << created, renderFence, isInitialized >>
    /\ UNCHANGED << clientVars, layoutVars, loadedEngine, frameNumber, loopVars, swapchainSemaphore,
                    renderSemaphore, mainCommandBuffer, queueVars,
                    swapchainImageIndex, gpuVars, destroyed, cleanupI,
                    deviceIdleWaited, cleanupFlushCount,
                    drawHist, logVars >>

(***************************************************************************)
(* run()                                                                   *)
(***************************************************************************)
Events == {"SDL_QUIT", "MINIMIZED", "RESTORED", "SDLK_ESCAPE", "SDLK_a", "OTHER"}

\* Mutant: the loop does not test bQuit.
run_while_ignoresQuit ==
    /\ pc = "run_while"
    /\ pc' = "run_poll"
    /\ UNCHANGED vars_but_pc

\* while (!bQuit), line 170.
run_while ==
    /\ pc = "run_while"
    /\ pc' = IF bQuit THEN "cleanup" ELSE "run_poll"
    /\ UNCHANGED << clientVars, layoutVars, engineVars, frameNumber, loopVars, syncVars,
                    mainCommandBuffer, queueVars, swapchainImageIndex, gpuVars,
                    callVars, resVars, drawHist, logVars >>

\* The body of the inner loop for one polled event e, lines 174-216.
HandleEvent(e) ==
    /\ bQuit' = IF e \in {"SDL_QUIT", "SDLK_ESCAPE"} THEN TRUE ELSE bQuit
    /\ stop_rendering' = CASE e = "MINIMIZED" -> TRUE
                           [] e = "RESTORED" -> FALSE
                           [] OTHER -> stop_rendering

\* while (SDL_PollEvent(&e) != 0), line 172: an event is pending and handled.
run_poll_event ==
    /\ pc = "run_poll"
    /\ \E e \in Events :
         /\ HandleEvent(e)
         /\ minimized' = CASE e = "MINIMIZED" -> TRUE
                           [] e = "RESTORED" -> FALSE
                           [] OTHER -> minimized
    /\ pc' = "run_poll"
    /\ UNCHANGED << clientVars, layoutVars, engineVars, frameNumber, syncVars, mainCommandBuffer,
                    queueVars, swapchainImageIndex, gpuVars, callVars, resVars,
                    drawHist, logVars >>

\* SDL_PollEvent returns 0: the event queue is empty.
run_poll_empty ==
    /\ pc = "run_poll"
    /\ pc' = "run_check"
    /\ UNCHANGED << clientVars, layoutVars, engineVars, frameNumber, loopVars, syncVars,
                    mainCommandBuffer, queueVars, swapchainImageIndex, gpuVars,
                    callVars, resVars, drawHist, logVars >>

\* Mutant: the loop draws whether or not rendering is stopped.
RunCheckTarget_alwaysDraw == "draw_WaitForFences"

\* if (stop_rendering) ... else draw(), lines 220-226.
RunCheckTarget == IF stop_rendering THEN "run_sleep" ELSE "draw_WaitForFences"

run_check ==
    /\ pc = "run_check"
    /\ pc' = RunCheckTarget
    /\ (pc' = "draw_WaitForFences") => frameNumber < MaxFrames
    /\ UNCHANGED << clientVars, layoutVars, engineVars, frameNumber, loopVars, syncVars,
                    mainCommandBuffer, queueVars, swapchainImageIndex, gpuVars,
                    callVars, resVars, drawHist, logVars >>

\* std::this_thread::sleep_for(100ms); continue, lines 222-223.
run_sleep ==
    /\ pc = "run_sleep"
    /\ pc' = "run_while"
    /\ UNCHANGED << clientVars, layoutVars, engineVars, frameNumber, loopVars, syncVars,
                    mainCommandBuffer, queueVars, swapchainImageIndex, gpuVars,
                    callVars, resVars, drawHist, logVars >>

(***************************************************************************)
(* draw()                                                                  *)
(***************************************************************************)
DrawPcs == {"draw_WaitForFences", "draw_flush", "draw_ResetFences",
            "draw_AcquireNextImage", "draw_ResetCommandBuffer",
            "draw_BeginCommandBuffer", "draw_record", "draw_EndCommandBuffer",
            "draw_QueueSubmit2", "draw_QueuePresent", "draw_advance"}

\* A submission of slot's command buffer has been handed to the queue and has
\* not finished.
SubmissionPending(slot) ==
    \E k \in 1 .. Len(graphicsQueue) : graphicsQueue[k].cmd = slot

\* A submission that signals slot's fence has not finished.
FencePending(slot) ==
    \E k \in 1 .. Len(graphicsQueue) : graphicsQueue[k].fence = slot

\* The fence draw() waits on, line 75.
WaitedFence == get_current_frame

\* vkWaitForFences with a timeout of one second: success once the fence is
\* signaled, VK_TIMEOUT while it is not, device loss at any time.
WaitForFencesResults(fence) ==
    IF renderFence[fence] THEN {VK_SUCCESS, VK_ERROR_DEVICE_LOST}
    ELSE {VK_TIMEOUT, VK_ERROR_DEVICE_LOST}

\* Mutant: the result of vkWaitForFences is not checked.
draw_WaitForFences_unchecked ==
    /\ pc = "draw_WaitForFences"
    /\ \E r \in WaitForFencesResults(WaitedFence) :
         /\ lastCall' = "vkWaitForFences"
         /\ lastResult' = r
         /\ pc' = "draw_flush"
    /\ stages' = << "AwaitSlotFree" >>
    /\ slotsUsed' = {get_current_frame}
    /\ frameAtStart' = frameNumber
    /\ slotLog' = Append(slotLog, get_current_frame)
    /\ UNCHANGED << clientVars, layoutVars, engineVars, frameNumber, loopVars, syncVars,
                    mainCommandBuffer, queueVars, swapchainImageIndex, gpuVars,
                    resVars, logVars >>

\* VK_CHECK(vkWaitForFences(... get_current_frame()._renderFence ...)), line 75.
draw_WaitForFences ==
    /\ pc = "draw_WaitForFences"
    /\ \E r \in WaitForFencesResults(WaitedFence) :
         Checked("vkWaitForFences", r, "draw_flush")
    /\ stages' = << "AwaitSlotFree" >>
    /\ slotsUsed' = {get_current_frame}
    /\ frameAtStart' = frameNumber
    /\ slotLog' = Append(slotLog, get_current_frame)
    /\ UNCHANGED << clientVars, layoutVars, engineVars, frameNumber, loopVars, syncVars,
                    mainCommandBuffer, queueVars, swapchainImageIndex, gpuVars,
                    resVars, logVars >>

\* get_current_frame()._deletionQueue.flush(), line 77.
draw_flush ==
    /\ pc = "draw_flush"
    /\ frameDeletionQueue' = [frameDeletionQueue EXCEPT ![get_current_frame] = << >>]
    /\ destroyed' = destroyed \o
                      DeletionQueue_flush(frameDeletionQueue[get_current_frame])
    /\ flushLog' = flushLog \cup
         {[slot |-> get_current_frame, frame |-> frameNumber,
           signaled |-> renderFence[get_current_frame],
           waited |-> (lastCall = "vkWaitForFences" /\ lastResult = VK_SUCCESS),
           pending |-> FencePending(get_current_frame)]}
    /\ slotsUsed' = slotsUsed \cup {get_current_frame}
    /\ pc' = "draw_ResetFences"
    /\ UNCHANGED << clientVars, layoutVars, engineVars, frameNumber, loopVars, syncVars,
                    mainCommandBuffer, mainDeletionQueue, swapchainImageIndex,
                    gpuVars, callVars, created, cleanupI,
                    deviceIdleWaited, cleanupFlushCount,
                    stages, frameAtStart, slotLog, resetLog, gpuLog >>

\* VK_CHECK(vkResetFences(... get_current_frame()._renderFence)), line 79.
draw_ResetFences ==
    /\ pc = "draw_ResetFences"
    /\ \E r \in {VK_SUCCESS, VK_ERROR_OUT_OF_DEVICE_MEMORY} :
         /\ Checked("vkResetFences", r, "draw_AcquireNextImage")
         /\ IF r = VK_SUCCESS
            THEN /\ renderFence' = [renderFence EXCEPT ![get_current_frame] = FALSE]
                 /\ resetLog' = resetLog \cup
                      {[op |-> "fence", slot |-> get_current_frame,
                        pending |-> FencePending(get_current_frame)]}
            ELSE UNCHANGED << renderFence, resetLog >>
    /\ slotsUsed' = slotsUsed \cup {get_current_frame}
    /\ UNCHANGED << clientVars, layoutVars, engineVars, frameNumber, loopVars, swapchainSemaphore,
                    renderSemaphore, mainCommandBuffer, queueVars,
                    swapchainImageIndex, gpuVars, resVars, stages, frameAtStart, slotLog,
                    flushLog, gpuLog >>

\* vkAcquireNextImageKHR with a timeout of one second: an available image
\* (VK_SUCCESS, or VK_SUBOPTIMAL_KHR / VK_ERROR_OUT_OF_DATE_KHR when the
\* surface has changed), VK_TIMEOUT when none is available.
AcquireResults ==
    IF \E i \in Images : images[i] = "available"
    THEN {VK_SUCCESS, VK_SUBOPTIMAL_KHR, VK_ERROR_OUT_OF_DATE_KHR}
    ELSE {VK_TIMEOUT, VK_ERROR_OUT_OF_DATE_KHR}

\* The semaphore handed to vkAcquireNextImageKHR, line 82.
AcquireSemaphore == [kind |-> "swapchain", slot |-> get_current_frame]

\* Mutant: an out-of-date surface makes draw() return early.
draw_AcquireNextImage_earlyReturn ==
    /\ pc = "draw_AcquireNextImage"
    /\ \E r \in AcquireResults :
         /\ lastCall' = "vkAcquireNextImageKHR"
         /\ lastResult' = r
         /\ pc' = CASE r = VK_ERROR_OUT_OF_DATE_KHR -> "run_while"
                    [] r = VK_SUCCESS -> "draw_ResetCommandBuffer"
                    [] OTHER -> "aborted"
         /\ IF r \in {VK_SUCCESS, VK_SUBOPTIMAL_KHR}
            THEN \E i \in Images :
                   /\ images[i] = "available"
                   /\ images' = [images EXCEPT ![i] = "acquired"]
                   /\ swapchainImageIndex' = i
                   /\ acquirePending' = acquirePending \cup
                        {[sem |-> AcquireSemaphore, frame |-> frameNumber]}
            ELSE UNCHANGED << images, swapchainImageIndex, acquirePending >>
    /\ stages' = Append(stages, "Acquire")
    /\ slotsUsed' = slotsUsed \cup {get_current_frame}
    /\ UNCHANGED << clientVars, layoutVars, engineVars, frameNumber, loopVars, syncVars,
                    mainCommandBuffer, queueVars, graphicsQueue, presentQueue,
                    resVars, frameAtStart, slotLog, logVars >>

\* VK_CHECK(vkAcquireNextImageKHR(..., _swapchainSemaphore, nullptr,
\* &swapchainImageIndex)), lines 81-82.
draw_AcquireNextImage ==
    /\ pc = "draw_AcquireNextImage"
    /\ \E r \in AcquireResults :
         /\ Checked("vkAcquireNextImageKHR", r, "draw_ResetCommandBuffer")
         /\ IF r \in {VK_SUCCESS, VK_SUBOPTIMAL_KHR}
            THEN \E i \in Images :
                   /\ images[i] = "available"
                   /\ images' = [images EXCEPT ![i] = "acquired"]
                   /\ swapchainImageIndex' = i
                   /\ acquirePending' = acquirePending \cup
                        {[sem |-> AcquireSemaphore, frame |-> frameNumber]}
            ELSE UNCHANGED << images, swapchainImageIndex, acquirePending >>
    /\ stages' = Append(stages, "Acquire")
    /\ slotsUsed' = slotsUsed \cup {get_current_frame}
    /\ UNCHANGED << clientVars, layoutVars, engineVars, frameNumber, loopVars, syncVars,
                    mainCommandBuffer, queueVars, graphicsQueue, presentQueue,
                    resVars, frameAtStart, slotLog, logVars >>

\* VkCommandBuffer cmd = get_current_frame()._mainCommandBuffer;
\* VK_CHECK(vkResetCommandBuffer(cmd, 0)), lines 85-88.
draw_ResetCommandBuffer ==
    /\ pc = "draw_ResetCommandBuffer"
    /\ \E r \in {VK_SUCCESS, VK_ERROR_OUT_OF_DEVICE_MEMORY} :
         /\ Checked("vkResetCommandBuffer", r, "draw_BeginCommandBuffer")
         /\ IF r = VK_SUCCESS
            THEN /\ mainCommandBuffer' =
                      [mainCommandBuffer EXCEPT ![get_current_frame] = "initial"]
                 /\ resetLog' = resetLog \cup
                      {[op |-> "cmd", slot |-> get_current_frame,
                        pending |-> SubmissionPending(get_current_frame)]}
            ELSE UNCHANGED << mainCommandBuffer, resetLog >>
    /\ stages' = Append(stages, "Record")
    /\ slotsUsed' = slotsUsed \cup {get_current_frame}
    /\ UNCHANGED << clientVars, layoutVars, engineVars, frameNumber, loopVars, syncVars, queueVars,
                    swapchainImageIndex, gpuVars, resVars, frameAtStart, slotLog,
                    flushLog, gpuLog >>

\* VK_CHECK(vkBeginCommandBuffer(cmd, &cmdBeginInfo)), lines 91-97.
draw_BeginCommandBuffer ==
    /\ pc = "draw_BeginCommandBuffer"
    /\ \E r \in {VK_SUCCESS, VK_ERROR_OUT_OF_DEVICE_MEMORY} :
         /\ Checked("vkBeginCommandBuffer", r, "draw_record")
         /\ mainCommandBuffer' =
              IF r = VK_SUCCESS
              THEN [mainCommandBuffer EXCEPT ![get_current_frame] = "recording"]
              ELSE mainCommandBuffer
    /\ UNCHANGED << clientVars, layoutVars, engineVars, frameNumber, loopVars, syncVars, queueVars,
                    swapchainImageIndex, gpuVars, resVars, drawHist, logVars >>

(***************************************************************************)
(* Image layouts and the commands draw() records.                          *)
(***************************************************************************)
\* vkutil::copy_image_to_image (vk_images.cpp): the layouts the copy command
\* names for its source and its destination.
CopySrcLayout == VK_IMAGE_LAYOUT_TRANSFER_SRC_OPTIMAL

CopyDstLayout == VK_IMAGE_LAYOUT_TRANSFER_DST_OPTIMAL

\* Mutant: the acquired image is not transitioned for present (line 112).
DrawCommands_noPresentTransition(i) ==
    << [op |-> "transition", image |-> DrawImage,
        old |-> VK_IMAGE_LAYOUT_UNDEFINED, new |-> VK_IMAGE_LAYOUT_GENERAL],
       [op |-> "clear", image |-> DrawImage, layout |-> VK_IMAGE_LAYOUT_GENERAL],
       [op |-> "transition", image |-> DrawImage,
        old |-> VK_IMAGE_LAYOUT_GENERAL,
        new |-> VK_IMAGE_LAYOUT_TRANSFER_SRC_OPTIMAL],
       [op |-> "transition", image |-> i,
        old |-> VK_IMAGE_LAYOUT_UNDEFINED,
        new |-> VK_IMAGE_LAYOUT_TRANSFER_DST_OPTIMAL],
       [op |-> "copy", src |-> DrawImage, dst |-> i] >>

\* The commands draw() records for acquired image i, in order: lines 100,
\* 102 (draw_background, line 69), 105, 106, 109 and 112.
DrawCommands(i) ==
    << [op |-> "transition", image |-> DrawImage,
        old |-> VK_IMAGE_LAYOUT_UNDEFINED, new |-> VK_IMAGE_LAYOUT_GENERAL],
       [op |-> "clear", image |-> DrawImage, layout |-> VK_IMAGE_LAYOUT_GENERAL],
       [op |-> "transition", image |-> DrawImage,
        old |-> VK_IMAGE_LAYOUT_GENERAL,
        new |-> VK_IMAGE_LAYOUT_TRANSFER_SRC_OPTIMAL],
       [op |-> "transition", image |-> i,
        old |-> VK_IMAGE_LAYOUT_UNDEFINED,
        new |-> VK_IMAGE_LAYOUT_TRANSFER_DST_OPTIMAL],
       [op |-> "copy", src |-> DrawImage, dst |-> i],
       [op |-> "transition", image |-> i,
        old |-> VK_IMAGE_LAYOUT_TRANSFER_DST_OPTIMAL,
        new |-> VK_IMAGE_LAYOUT_PRESENT_SRC_KHR] >>

\* What is noted of a recorded command: the image, the layout the command
\* declares for it and the layout the commands recorded before left it in.
Noted(op, image, declared, layout) ==
    [op |-> op, image |-> image, declared |-> declared,
     actual |-> layout[image]]

\* One command is recorded in state st = [layout, log]: a transition
\* (vkutil::transition_image, vk_images.cpp) leaves the image in its new
\* layout; a clear and a copy leave the layouts as they are.
RecordCommand(c, st) ==
    CASE c.op = "transition" ->
           [layout |-> [st.layout EXCEPT ![c.image] = c.new],
            log |-> st.log \cup
                      {Noted("transition", c.image, c.old, st.layout)}]
      [] c.op = "clear" ->
           [layout |-> st.layout,
            log |-> st.log \cup {Noted("clear", c.image, c.layout, st.layout)}]
      [] OTHER ->
           [layout |-> st.layout,
            log |-> st.log \cup
                      {Noted("copy_src", c.src, CopySrcLayout, st.layout),
                       Noted("copy_dst", c.dst, CopyDstLayout, st.layout)}]

RECURSIVE RecordCommands(_, _)
RecordCommands(cmds, st) ==
    IF cmds = << >> THEN st
    ELSE RecordCommands(Tail(cmds), RecordCommand(Head(cmds), st))

\* The commands recorded between begin and end, lines 100-112.
draw_record ==
    /\ pc = "draw_record"
    /\ LET st == RecordCommands(DrawCommands(swapchainImageIndex),
                                [layout |-> imageLayout, log |-> recordLog])
       IN /\ imageLayout' = st.layout
          /\ recordLog' = st.log
    /\ pc' = "draw_EndCommandBuffer"
    /\ UNCHANGED << clientVars, engineVars, frameNumber, loopVars, syncVars,
                    mainCommandBuffer, queueVars, swapchainImageIndex, gpuVars,
                    callVars, resVars, drawHist, logVars >>

\* VK_CHECK(vkEndCommandBuffer(cmd)), line 116.
draw_EndCommandBuffer ==
    /\ pc = "draw_EndCommandBuffer"
    /\ \E r \in {VK_SUCCESS, VK_ERROR_OUT_OF_DEVICE_MEMORY} :
         /\ Checked("vkEndCommandBuffer", r, "draw_QueueSubmit2")
         /\ mainCommandBuffer' =
              IF r = VK_SUCCESS
              THEN [mainCommandBuffer EXCEPT ![get_current_frame] = "executable"]
              ELSE [mainCommandBuffer EXCEPT ![get_current_frame] = "invalid"]
    /\ UNCHANGED << clientVars, layoutVars, engineVars, frameNumber, loopVars, syncVars, queueVars,
                    swapchainImageIndex, gpuVars, resVars, drawHist, logVars >>

\* Mutant: the submission waits on the other slot's image-acquired semaphore.
SubmitWaitSemaphore_otherSlot ==
    [kind |-> "swapchain", slot |-> (frameNumber + 1) % FRAME_OVERLAP]

\* waitInfo, lines 125-128: the semaphore the submission waits on.
SubmitWaitSemaphore == [kind |-> "swapchain", slot |-> get_current_frame]

\* signalInfo, lines 130-133: the semaphore the submission signals.
SubmitSignalSemaphore == [kind |-> "render", slot |-> get_current_frame]

\* The fence handed to vkQueueSubmit2, line 140.
SubmitFence == get_current_frame

\* Mutant: the result of vkQueueSubmit2 is not checked.
draw_QueueSubmit2_unchecked ==
    /\ pc = "draw_QueueSubmit2"
    /\ \E r \in {VK_SUCCESS, VK_ERROR_DEVICE_LOST} :
         /\ lastCall' = "vkQueueSubmit2"
         /\ lastResult' = r
         /\ pc' = "draw_QueuePresent"
         /\ IF r = VK_SUCCESS
            THEN /\ graphicsQueue' = Append(graphicsQueue,
                      [frame |-> frameNumber, cmd |-> get_current_frame,
                       wait |-> SubmitWaitSemaphore,
                       signal |-> SubmitSignalSemaphore,
                       fence |-> SubmitFence, state |-> "queued"])
                 /\ mainCommandBuffer' =
                      [mainCommandBuffer EXCEPT ![get_current_frame] = "pending"]
            ELSE UNCHANGED << graphicsQueue, mainCommandBuffer >>
    /\ stages' = Append(stages, "Submit")
    /\ slotsUsed' = slotsUsed \cup {get_current_frame}
    /\ UNCHANGED << clientVars, layoutVars, engineVars, frameNumber, loopVars, syncVars, queueVars,
                    swapchainImageIndex, images, acquirePending, presentQueue,
                    resVars, frameAtStart, slotLog, logVars >>

\* VK_CHECK(vkQueueSubmit2(_graphicsQueue, 1, &submit, _renderFence)),
\* lines 123-140.
draw_QueueSubmit2 ==
    /\ pc = "draw_QueueSubmit2"
    /\ \E r \in {VK_SUCCESS, VK_ERROR_DEVICE_LOST} :
         /\ Checked("vkQueueSubmit2", r, "draw_QueuePresent")
         /\ IF r = VK_SUCCESS
            THEN /\ graphicsQueue' = Append(graphicsQueue,
                      [frame |-> frameNumber, cmd |-> get_current_frame,
                       wait |-> SubmitWaitSemaphore,
                       signal |-> SubmitSignalSemaphore,
                       fence |-> SubmitFence, state |-> "queued"])
                 /\ mainCommandBuffer' =
                      [mainCommandBuffer EXCEPT ![get_current_frame] = "pending"]
            ELSE UNCHANGED << graphicsQueue, mainCommandBuffer >>
    /\ stages' = Append(stages, "Submit")
    /\ slotsUsed' = slotsUsed \cup {get_current_frame}
    /\ UNCHANGED << clientVars, layoutVars, engineVars, frameNumber, loopVars, syncVars, queueVars,
                    swapchainImageIndex, images, acquirePending, presentQueue,
                    resVars, frameAtStart, slotLog, logVars >>

\* presentInfo.pWaitSemaphores, line 151.
PresentWaitSemaphore == [kind |-> "render", slot |-> get_current_frame]

\* vkQueuePresentKHR: queued (VK_SUCCESS, VK_SUBOPTIMAL_KHR) or refused.
PresentResults ==
    {VK_SUCCESS, VK_SUBOPTIMAL_KHR, VK_ERROR_OUT_OF_DATE_KHR, VK_ERROR_DEVICE_LOST}

\* VK_CHECK(vkQueuePresentKHR(_graphicsQueue, &presentInfo)), lines 145-156.
draw_QueuePresent ==
    /\ pc = "draw_QueuePresent"
    /\ \E r \in PresentResults :
         /\ Checked("vkQueuePresentKHR", r, "draw_advance")
         /\ IF r \in {VK_SUCCESS, VK_SUBOPTIMAL_KHR}
            THEN /\ presentQueue' = Append(presentQueue,
                      [frame |-> frameNumber, image |-> swapchainImageIndex,
                       wait |-> PresentWaitSemaphore])
                 /\ images' = [images EXCEPT ![swapchainImageIndex] = "queued"]
            ELSE UNCHANGED << presentQueue, images >>
    /\ stages' = Append(stages, "Present")
    /\ slotsUsed' = slotsUsed \cup {get_current_frame}
    /\ UNCHANGED << clientVars, layoutVars, engineVars, frameNumber, loopVars, syncVars,
                    mainCommandBuffer, queueVars, swapchainImageIndex,
                    acquirePending, graphicsQueue, resVars, frameAtStart, slotLog,
                    logVars >>

\* Mutant: draw() returns without incrementing _frameNumber.
draw_advance_noIncrement ==
    /\ pc = "draw_advance"
    /\ stages' = Append(stages, "Advance")
    /\ pc' = "run_while"
    /\ UNCHANGED << clientVars, layoutVars, engineVars, frameNumber, loopVars,
                    syncVars, mainCommandBuffer, queueVars, swapchainImageIndex,
                    gpuVars, callVars, resVars, slotsUsed, frameAtStart,
                    slotLog, logVars >>

\* _frameNumber++, line 159; draw() returns to run().
draw_advance ==
    /\ pc = "draw_advance"
    /\ frameNumber' = frameNumber + 1
    /\ stages' = Append(stages, "Advance")
    /\ pc' = "run_while"
    /\ UNCHANGED << clientVars, layoutVars, engineVars, loopVars, syncVars, mainCommandBuffer,
                    queueVars, swapchainImageIndex, gpuVars, callVars, resVars,
                    slotsUsed, frameAtStart, slotLog, logVars >>

(***************************************************************************)
(* The graphics queue and the presentation engine.                         *)
(***************************************************************************)
\* The process is alive: after abort() or exit nothing is observed any more.
Alive == pc \notin {"aborted", "exit"}

SemSignaled(h) ==
    IF h.kind = "swapchain" THEN swapchainSemaphore[h.slot]
    ELSE renderSemaphore[h.slot]

\* The semaphore arrays after semaphore h is set to v.
SwapchainAfter(sw, h, v) ==
    IF h.kind = "swapchain" THEN [sw EXCEPT ![h.slot] = v] ELSE sw

RenderAfter(rs, h, v) ==
    IF h.kind = "render" THEN [rs EXCEPT ![h.slot] = v] ELSE rs

\* The presentation engine signals the semaphore of an acquire.
AcquireSignal ==
    /\ Alive
    /\ \E a \in acquirePending :
         /\ acquirePending' = acquirePending \ {a}
         /\ swapchainSemaphore' = SwapchainAfter(swapchainSemaphore, a.sem, TRUE)
         /\ renderSemaphore' = RenderAfter(renderSemaphore, a.sem, TRUE)
         /\ gpuLog' = gpuLog \cup
              {[op |-> "acquired", frame |-> a.frame, sem |-> a.sem]}
    /\ UNCHANGED << clientVars, layoutVars, pc, engineVars, frameNumber, loopVars, renderFence,
                    mainCommandBuffer, queueVars, swapchainImageIndex, images,
                    graphicsQueue, presentQueue, callVars, resVars, drawHist,
                    flushLog, resetLog >>

\* The queue starts the first submission not yet started, once the semaphore
\* it waits on is signaled; the wait unsignals the semaphore.
GpuBegin ==
    /\ Alive
    /\ \E k \in 1 .. Len(graphicsQueue) :
         /\ graphicsQueue[k].state = "queued"
         /\ \A j \in 1 .. (k - 1) : graphicsQueue[j].state = "executing"
         /\ SemSignaled(graphicsQueue[k].wait)
         /\ swapchainSemaphore' =
              SwapchainAfter(swapchainSemaphore, graphicsQueue[k].wait, FALSE)
         /\ renderSemaphore' =
              RenderAfter(renderSemaphore, graphicsQueue[k].wait, FALSE)
         /\ graphicsQueue' = [graphicsQueue EXCEPT ![k].state = "executing"]
         /\ gpuLog' = gpuLog \cup
              {[op |-> "executed", frame |-> graphicsQueue[k].frame,
                wait |-> graphicsQueue[k].wait,
                acquired |-> ([op |-> "acquired", frame |-> graphicsQueue[k].frame,
                               sem |-> graphicsQueue[k].wait] \in gpuLog)]}
    /\ UNCHANGED << clientVars, layoutVars, pc, engineVars, frameNumber, loopVars, renderFence,
                    mainCommandBuffer, queueVars, swapchainImageIndex, images,
                    acquirePending, presentQueue, callVars, resVars, drawHist,
                    flushLog, resetLog >>

\* The oldest submission finishes: its semaphore and its fence are signaled.
GpuFinish ==
    /\ Alive
    /\ graphicsQueue # << >>
    /\ Head(graphicsQueue).state = "executing"
    /\ LET sub == Head(graphicsQueue) IN
         /\ graphicsQueue' = Tail(graphicsQueue)
         /\ swapchainSemaphore' = SwapchainAfter(swapchainSemaphore, sub.signal, TRUE)
         /\ renderSemaphore' = RenderAfter(renderSemaphore, sub.signal, TRUE)
         /\ renderFence' = [renderFence EXCEPT ![sub.fence] = TRUE]
         /\ mainCommandBuffer' =
              IF mainCommandBuffer[sub.cmd] = "pending"
              THEN [mainCommandBuffer EXCEPT ![sub.cmd] = "invalid"]
              ELSE mainCommandBuffer
         /\ gpuLog' = gpuLog \cup
              {[op |-> "finished", frame |-> sub.frame, signal |-> sub.signal,
                fence |-> sub.fence]}
    /\ UNCHANGED << clientVars, layoutVars, pc, engineVars, frameNumber, loopVars, queueVars,
                    swapchainImageIndex, images, acquirePending, presentQueue,
                    callVars, resVars, drawHist, flushLog, resetLog >>

\* The presentation engine processes the oldest present request once the
\* semaphore it waits on is signaled: the image is shown, and the image shown
\* before becomes available again.
PresentEngine ==
    /\ Alive
    /\ presentQueue # << >>
    /\ LET p == Head(presentQueue) IN
         /\ SemSignaled(p.wait)
         /\ swapchainSemaphore' = SwapchainAfter(swapchainSemaphore, p.wait, FALSE)
         /\ renderSemaphore' = RenderAfter(renderSemaphore, p.wait, FALSE)
         /\ presentQueue' = Tail(presentQueue)
         /\ images' = [i \in Images |->
                         IF i = p.image THEN "shown"
                         ELSE IF images[i] = "shown" THEN "available"
                         ELSE images[i]]
         /\ gpuLog' = gpuLog \cup
              {[op |-> "presented", frame |-> p.frame, wait |-> p.wait,
                rendered |-> (\E e \in gpuLog :
                                /\ e.op = "finished"
                                /\ e.frame = p.frame
                                /\ e.signal = p.wait)]}
    /\ UNCHANGED << clientVars, layoutVars, pc, engineVars, frameNumber, loopVars, renderFence,
                    mainCommandBuffer, queueVars, swapchainImageIndex,
                    acquirePending, graphicsQueue, callVars, resVars, drawHist,
                    flushLog, resetLog >>

(***************************************************************************)
(* cleanup()                                                               *)
(***************************************************************************)
CleanupPcs == {"cleanup", "cleanup_DeviceWaitIdle", "cleanup_frames",
               "cleanup_flush", "cleanup_destroy_swapchain", "cleanup_device",
               "cleanup_clear"}

\* Mutant: cleanup() does not wait for the device to be idle.
CleanupFirstStep_noWait == "cleanup_frames"

\* Where cleanup() goes when _isInitialized holds, lines 424-426.
CleanupFirstStep == "cleanup_DeviceWaitIdle"

\* if (_isInitialized), line 424.
cleanup ==
    /\ pc = "cleanup"
    /\ pc' = IF isInitialized THEN CleanupFirstStep ELSE "cleanup_clear"
    /\ cleanupI' = 0
    /\ UNCHANGED << clientVars, layoutVars, engineVars, frameNumber, loopVars, syncVars,
                    mainCommandBuffer, queueVars, swapchainImageIndex, gpuVars,
                    callVars, created, destroyed, deviceIdleWaited,
                    cleanupFlushCount, drawHist,
                    logVars >>

\* vkDeviceWaitIdle(_device), line 426: returns once the queue is idle.
cleanup_DeviceWaitIdle ==
    /\ pc = "cleanup_DeviceWaitIdle"
    /\ graphicsQueue = << >>
    /\ deviceIdleWaited' = TRUE
    /\ pc' = "cleanup_frames"
    /\ UNCHANGED << clientVars, layoutVars, engineVars, frameNumber, loopVars, syncVars,
                    mainCommandBuffer, queueVars, swapchainImageIndex, gpuVars,
                    callVars, created, destroyed, cleanupI, cleanupFlushCount,
                    drawHist, logVars >>

\* What one iteration of the loop of lines 428-436 destroys, in order.
CleanupFrameDestroys(i) ==
    << SlotRes("commandPool", i), SlotRes("renderFence", i),
       SlotRes("renderSemaphore", i), SlotRes("swapchainSemaphore", i) >>

\* for (int i = 0; i < FRAME_OVERLAP; i++) { ... }, lines 428-436.
cleanup_frames ==
    /\ pc = "cleanup_frames"
    /\ IF cleanupI < FRAME_OVERLAP
       THEN /\ destroyed' = destroyed \o CleanupFrameDestroys(cleanupI)
            /\ mainCommandBuffer' = [mainCommandBuffer EXCEPT ![cleanupI] = "none"]
            /\ cleanupI' = cleanupI + 1
            /\ pc' = "cleanup_frames"
       ELSE /\ pc' = "cleanup_flush"
            /\ UNCHANGED << destroyed, mainCommandBuffer, cleanupI >>
    /\ UNCHANGED << clientVars, layoutVars, engineVars, frameNumber, loopVars, syncVars, queueVars,
                    swapchainImageIndex, gpuVars, callVars, created,
                    deviceIdleWaited, cleanupFlushCount,
                    drawHist, logVars >>

\* _mainDeletionQueue.flush(), line 439.
cleanup_flush ==
    /\ pc = "cleanup_flush"
    /\ destroyed' = destroyed \o DeletionQueue_flush(mainDeletionQueue)
    /\ mainDeletionQueue' = << >>
    /\ cleanupFlushCount' =
         [cleanupFlushCount EXCEPT ![MainQueue] = cleanupFlushCount[MainQueue] + 1]
    /\ pc' = "cleanup_destroy_swapchain"
    /\ UNCHANGED << clientVars, layoutVars, engineVars, frameNumber, loopVars, syncVars,
                    mainCommandBuffer, frameDeletionQueue, swapchainImageIndex,
                    gpuVars, callVars, created, cleanupI, deviceIdleWaited,
                    drawHist, logVars >>

\* destroy_swapchain(), lines 411-420, called at line 441.
destroy_swapchain == << Res("swapchain"), Res("swapchainImageViews") >>

cleanup_destroy_swapchain ==
    /\ pc = "cleanup_destroy_swapchain"
    /\ destroyed' = destroyed \o destroy_swapchain
    /\ images' = [i \in Images |-> "none"]
    /\ pc' = "cleanup_device"
    /\ UNCHANGED << clientVars, layoutVars, engineVars, frameNumber, loopVars, syncVars,
                    mainCommandBuffer, queueVars, swapchainImageIndex,
                    acquirePending, graphicsQueue, presentQueue, callVars,
                    created, cleanupI,
                    deviceIdleWaited, cleanupFlushCount,
                    drawHist, logVars >>

\* Mutant: the instance is destroyed before the device and the surface.
CleanupDeviceDestroys_instanceFirst ==
    << Res("instance"), Res("device"), Res("surface"), Res("debug_messenger"),
       Res("window") >>

\* Lines 443-448: device, surface, debug messenger, window, instance.
CleanupDeviceDestroys ==
    << Res("device"), Res("surface"), Res("debug_messenger"), Res("window"),
       Res("instance") >>

cleanup_device ==
    /\ pc = "cleanup_device"
    /\ destroyed' = destroyed \o CleanupDeviceDestroys
    /\ pc' = "cleanup_clear"
    /\ UNCHANGED << clientVars, layoutVars, engineVars, frameNumber, loopVars, syncVars,
                    mainCommandBuffer, queueVars, swapchainImageIndex, gpuVars,
                    callVars, created, cleanupI, deviceIdleWaited,
                    cleanupFlushCount, drawHist,
                    logVars >>

\* loadedEngine = nullptr, line 452; the process exits.
cleanup_clear ==
    /\ pc = "cleanup_clear"
    /\ loadedEngine' = "nullptr"
    /\ pc' = "exit"
    /\ UNCHANGED << clientVars, layoutVars, isInitialized, frameNumber, loopVars, syncVars,
                    mainCommandBuffer, queueVars, swapchainImageIndex, gpuVars,
                    callVars, resVars, drawHist, logVars >>

(***************************************************************************)
(* A client that calls init() and cleanup() on its VulkanEngine objects,   *)
(* each call run to its end before the next.                               *)
(***************************************************************************)
\* Number of calls the client makes.
MaxCalls == 4

\* What the client's calls leave alone: the state of the frame loop.
loopState ==
    << isInitialized, frameNumber, loopVars, syncVars, mainCommandBuffer,
       queueVars, swapchainImageIndex, gpuVars, callVars, resVars, layoutVars,
       drawHist, logVars >>

\* The callbacks init() leaves in _mainDeletionQueue, in order of
\* registration: init_vulkan() lines 293-297, init_swapchain() lines 403-408.
InitCallbacks == RegisterDrawImage(<< "destroyAllocator" >>)

\* for (int i = 0; i < FRAME_OVERLAP; i++) { ... }, lines 428-436.
RECURSIVE CleanupFrameDestroysFrom(_)
CleanupFrameDestroysFrom(i) ==
    IF i >= FRAME_OVERLAP THEN << >>
    ELSE CleanupFrameDestroys(i) \o CleanupFrameDestroysFrom(i + 1)

\* The destruction calls of cleanup() inside if (_isInitialized), on an
\* object whose _mainDeletionQueue holds q: lines 428-448.
CleanupDestroys(q) ==
    CleanupFrameDestroysFrom(0) \o DeletionQueue_flush(q) \o destroy_swapchain
      \o CleanupDeviceDestroys

\* e.init(), lines 28-57: assert(loadedEngine == nullptr) ends the process
\* when an engine is loaded; else loadedEngine = this, the resources are
\* created and _isInitialized = true.
VulkanEngine_init(e) ==
    /\ pc = "client"
    /\ Len(callLog) < MaxCalls
    /\ callLog' = Append(callLog, << "init", e >>)
    /\ IF loadedEngine # "nullptr"
       THEN /\ pc' = "aborted"
            /\ UNCHANGED << loadedEngine, objects >>
       ELSE /\ pc' = pc
            /\ loadedEngine' = e
            /\ objects' = [objects EXCEPT ![e] =
                 [isInitialized |-> TRUE,
                  mainDeletionQueue |-> @.mainDeletionQueue \o InitCallbacks,
                  destroyed |-> @.destroyed,
                  live |-> TRUE,
                  again |-> @.again]]
    /\ UNCHANGED loopState

\* e.cleanup(), lines 422-453: the destruction calls when _isInitialized
\* holds (the flag is left as it is), then loadedEngine = nullptr.
VulkanEngine_cleanup(e) ==
    /\ pc = "client"
    /\ Len(callLog) < MaxCalls
    /\ callLog' = Append(callLog, << "cleanup", e >>)
    /\ objects' = [objects EXCEPT ![e] =
         IF @.isInitialized
         THEN [isInitialized |-> @.isInitialized,
               mainDeletionQueue |-> << >>,
               destroyed |-> @.destroyed \o CleanupDestroys(@.mainDeletionQueue),
               live |-> FALSE,
               again |-> (@.again \/ ~@.live)]
         ELSE [@ EXCEPT !.live = FALSE]]
    /\ loadedEngine' = "nullptr"
    /\ pc' = pc
    /\ UNCHANGED loopState

(***************************************************************************)
(* Properties.                                                             *)
(***************************************************************************)
\* The steps of draw() from the fence reset to the submit: the slot is being
\* reused.
ReusePcs == {"draw_ResetFences", "draw_AcquireNextImage",
             "draw_ResetCommandBuffer", "draw_BeginCommandBuffer",
             "draw_record", "draw_EndCommandBuffer", "draw_QueueSubmit2"}

\* C1: draw() resets the slot's fence and resets / re-records the slot's
\* command buffer only after the wait on that slot's fence has succeeded: no
\* reset ever happens, and no state between the fence reset and the submit is
\* reached, while a submission of that slot's command buffer (or one that
\* signals that slot's fence) is still pending.
C1_NoReuseWhilePending ==
    /\ \A e \in resetLog : ~e.pending
    /\ pc \in ReusePcs =>
         /\ ~SubmissionPending(get_current_frame)
         /\ ~FencePending(get_current_frame)
    /\ \A s \in Slots :
         mainCommandBuffer[s] \in {"recording", "executable"} =>
           ~SubmissionPending(s)

\* A slot is re-recorded for its second use while the other slot's
\* submission is still on the queue.
C1_Witness ==
    /\ pc = "draw_record"
    /\ frameNumber >= FRAME_OVERLAP
    /\ mainCommandBuffer[get_current_frame] = "recording"
    /\ graphicsQueue # << >>
    /\ [op |-> "cmd", slot |-> get_current_frame, pending |-> FALSE] \in resetLog

\* C2: a slot's deletion queue is flushed by draw() only while that slot's
\* fence is signaled: after the wait on it has succeeded (nothing submitted
\* with the slot is in flight) and before the fence is reset.
C2_FlushOnlyWhenSignaled ==
    /\ \A e \in flushLog : e.signaled /\ e.waited /\ ~e.pending
    /\ pc \in {"draw_flush", "draw_ResetFences"} =>
         /\ renderFence[get_current_frame]
         /\ ~FencePending(get_current_frame)
    /\ \A e \in resetLog :
         e.op = "fence" => \E f \in flushLog : f.slot = e.slot

\* The second use of a slot has flushed its queue and is about to reset the
\* fence.
C2_Witness ==
    /\ pc = "draw_ResetFences"
    /\ frameNumber >= FRAME_OVERLAP
    /\ \E e \in flushLog : e.frame = frameNumber /\ e.slot = get_current_frame

\* C3: the GPU starts a frame's commands only after that slot's image-acquired
\* semaphore was signaled by the acquire of the same frame; the image is
\* presented only after that slot's render-complete semaphore was signaled by
\* the end of the same frame's submission; the submission signals the slot's
\* render-complete semaphore and the slot's fence.
C3_SemaphoreOrdering ==
    \A e \in gpuLog :
      /\ e.op = "executed" =>
           /\ e.wait = [kind |-> "swapchain", slot |-> e.frame % FRAME_OVERLAP]
           /\ e.acquired
      /\ e.op = "presented" =>
           /\ e.wait = [kind |-> "render", slot |-> e.frame % FRAME_OVERLAP]
           /\ e.rendered
      /\ e.op = "finished" =>
           /\ e.signal = [kind |-> "render", slot |-> e.frame % FRAME_OVERLAP]
           /\ e.fence = e.frame % FRAME_OVERLAP

\* A frame on a reused slot has been acquired, executed and presented.
C3_Witness ==
    \E e \in gpuLog :
      /\ e.op = "presented"
      /\ e.frame >= FRAME_OVERLAP
      /\ e.rendered

\* The states of a frame, in order (spec 4.5).
StageOrder == << "AwaitSlotFree", "Acquire", "Record", "Submit", "Present",
                 "Advance" >>

InStages(st) == \E k \in 1 .. Len(stages) : stages[k] = st

\* The steps of draw() that make up the Record state, lines 85-116.
RecordPcs == {"draw_ResetCommandBuffer", "draw_BeginCommandBuffer",
              "draw_record", "draw_EndCommandBuffer"}

\* The frame is recording, or is about to make the submit call.
BeforeSubmit == pc \in RecordPcs \cup {"draw_QueueSubmit2"}

\* The current call of draw() has begun recording: vkBeginCommandBuffer has
\* succeeded in it.
RecordingBegun ==
    /\ InStages("Record")
    /\ \/ pc \in {"draw_record", "draw_EndCommandBuffer"}
       \/ lastCall = "vkBeginCommandBuffer" /\ lastResult = VK_SUCCESS
       \/ lastCall \in {"vkEndCommandBuffer", "vkQueueSubmit2",
                        "vkQueuePresentKHR"}

\* The calls of the Record state.
RecordCalls == {"vkResetCommandBuffer", "vkBeginCommandBuffer",
                "vkEndCommandBuffer"}

\* A call of draw() has been made and has returned to run().
DrawReturned == stages # << >> /\ pc \notin DrawPcs /\ pc # "aborted"

\* The part of C4 that holds as stated: the stages of a call are a prefix of
\* the six states in order, all on the slot selected at the start; a call
\* that returned went through all six; the frame counter is the one of the
\* start of the call until Advance, which follows Present, and one more after.
StagesInOrder ==
    /\ Len(stages) <= Len(StageOrder)
    /\ stages = SubSeq(StageOrder, 1, Len(stages))
    /\ stages # << >> => slotsUsed = {frameAtStart % FRAME_OVERLAP}
    /\ DrawReturned => stages = StageOrder
    /\ stages # << >> =>
         frameNumber = frameAtStart + (IF InStages("Advance") THEN 1 ELSE 0)

\* C4 as stated: every call of draw() that returns goes through the six states
\* once each, in order, on one slot; a frame that has begun recording always
\* reaches Submit; the frame counter grows by exactly one, after Present.
C4_Original ==
    /\ StagesInOrder
    /\ (RecordingBegun /\ ~BeforeSubmit) => InStages("Submit")

\* C4 amended: as C4, except that a frame that has begun recording reaches
\* Submit unless vkEndCommandBuffer fails, in which case the process is
\* aborted in Record.
C4_Amended ==
    /\ StagesInOrder
    /\ (RecordingBegun /\ ~BeforeSubmit /\ ~InStages("Submit")) =>
         /\ pc = "aborted"
         /\ lastCall = "vkEndCommandBuffer"
         /\ lastResult # VK_SUCCESS

\* A second call of draw() has returned after all six states.
C4_Witness ==
    /\ DrawReturned
    /\ stages = StageOrder
    /\ RecordingBegun
    /\ frameNumber >= FRAME_OVERLAP

\* C5 as stated: an out-of-date result of acquire or present is recoverable;
\* it never ends the process.
C5_OutOfDateRecoverable ==
    (/\ lastCall \in {"vkAcquireNextImageKHR", "vkQueuePresentKHR"}
     /\ lastResult = VK_ERROR_OUT_OF_DATE_KHR) => pc # "aborted"

\* The calls of draw() whose failure C6 is about.
FatalCalls == {"vkWaitForFences", "vkResetFences", "vkResetCommandBuffer",
               "vkBeginCommandBuffer", "vkEndCommandBuffer", "vkQueueSubmit2"}

\* The stage in which each of these calls is made.
StageOfCall(call) ==
    CASE call \in {"vkWaitForFences", "vkResetFences"} -> << "AwaitSlotFree" >>
      [] call \in RecordCalls -> << "AwaitSlotFree", "Acquire", "Record" >>
      [] OTHER -> << "AwaitSlotFree", "Acquire", "Record", "Submit" >>

\* Frame f was handed to the graphics queue.
Submitted(f) ==
    \/ \E k \in 1 .. Len(graphicsQueue) : graphicsQueue[k].frame = f
    \/ \E e \in gpuLog : e.op \in {"executed", "finished"} /\ e.frame = f

\* Frame f was handed to the presentation engine.
PresentRequested(f) ==
    \/ \E k \in 1 .. Len(presentQueue) : presentQueue[k].frame = f
    \/ \E e \in gpuLog : e.op = "presented" /\ e.frame = f

\* C6: a timeout of the fence wait and any failure of fence reset,
\* command-buffer reset / begin / end or submit is fatal and not retried: the
\* process is aborted in the stage of the failing call, no later step of the
\* frame has run (no flush after a failed wait, no submission after a failed
\* record, no present after a failed submit) and the frame counter is the one
\* the frame began with.
C6_FailureIsFatal ==
    (lastCall \in FatalCalls /\ lastResult # VK_SUCCESS) =>
      /\ pc = "aborted"
      /\ stages = StageOfCall(lastCall)
      /\ frameNumber = frameAtStart
      /\ lastCall = "vkWaitForFences" =>
           ~ \E e \in flushLog : e.frame = frameNumber
      /\ ~Submitted(frameNumber)
      /\ ~PresentRequested(frameNumber)

\* The wait on the fence of a reused slot has timed out.
C6_Witness ==
    /\ pc = "aborted"
    /\ lastCall = "vkWaitForFences"
    /\ lastResult = VK_TIMEOUT
    /\ frameNumber >= FRAME_OVERLAP

\* C7 as stated: once cleanup() has run on an initialised engine, it has
\* flushed the deletion queue of every slot exactly once and the global
\* deletion queue exactly once.
C7_EveryQueueFlushedOnce ==
    (pc = "exit" /\ isInitialized) =>
      \A q \in Queues : cleanupFlushCount[q] = 1

IndexOf(s, x) ==
    IF \E k \in 1 .. Len(s) : s[k] = x
    THEN CHOOSE k \in 1 .. Len(s) : s[k] = x
    ELSE 0

\* x precedes y in s.
Before(s, x, y) ==
    IndexOf(s, x) > 0 /\ IndexOf(s, y) > 0 /\ IndexOf(s, x) < IndexOf(s, y)

\* The resources C9 is about: those init() created and cleanup() destroyed.
Tracked == {created[k] : k \in 1 .. Len(created)} \cap
           {destroyed[k] : k \in 1 .. Len(destroyed)}

PerSlotKinds == {"commandPool", "renderFence", "renderSemaphore",
                 "swapchainSemaphore"}

SwapchainKinds == {"swapchain", "swapchainImageViews"}

\* The pairs (x created before y) that cleanup() does not destroy in reverse
\* order: two per-slot objects, unless x is the command pool of a later slot
\* than y's; the allocator and the swapchain or its image views; the
\* swapchain and its image views; the window and the instance.
C9_Exempt(x, y) ==
    \/ /\ x[1] \in PerSlotKinds
       /\ y[1] \in PerSlotKinds
       /\ ~(x[1] = "commandPool" /\ y[1] # "commandPool" /\ x[2] > y[2])
    \/ x[1] = "allocator" /\ y[1] \in SwapchainKinds
    \/ x[1] = "swapchain" /\ y[1] = "swapchainImageViews"
    \/ x[1] = "window" /\ y[1] = "instance"

C10_MinimizedStep ==
    /\ (pc = "run_check" /\ pc' # pc) =>
         pc' = (IF minimized THEN "run_sleep" ELSE "draw_WaitForFences")
    /\ pc' \in DrawPcs => ~minimized'
    /\ (pc = "run_sleep" /\ pc' # pc) => pc' = "run_while"
    /\ (pc # "run_poll" /\ pc' = "run_poll") => pc = "run_while"
    /\ (pc = "run_while" /\ pc' # pc) =>
         pc' = (IF bQuit THEN "cleanup" ELSE "run_poll")

C10_Minimized == [][C10_MinimizedStep]_vars

\* The loop sleeps, minimized, after it has drawn frames.
C10_Witness ==
    /\ pc = "run_sleep"
    /\ minimized
    /\ ~bQuit
    /\ frameNumber >= 1

\* C11: the slot of a call of draw() is the frame counter modulo
\* FRAME_OVERLAP: call i uses the slot of call i + FRAME_OVERLAP, consecutive
\* calls use different slots, and everything one call touches (fence,
\* deletion queue, semaphores, command buffer) belongs to that one slot.
C11_SlotRotation ==
    /\ \A i \in 1 .. Len(slotLog) : slotLog[i] = (i - 1) % FRAME_OVERLAP
    /\ \A i \in 1 .. (Len(slotLog) - FRAME_OVERLAP) :
         slotLog[i] = slotLog[i + FRAME_OVERLAP]
    /\ \A i \in 1 .. (Len(slotLog) - 1) : slotLog[i] # slotLog[i + 1]
    /\ stages # << >> => slotsUsed = {slotLog[Len(slotLog)]}
    /\ \A k \in 1 .. Len(graphicsQueue) :
         LET sub == graphicsQueue[k] IN
           /\ sub.cmd = sub.frame % FRAME_OVERLAP
           /\ sub.fence = sub.cmd
           /\ sub.wait.slot = sub.cmd
           /\ sub.signal.slot = sub.cmd
    /\ \A k \in 1 .. Len(presentQueue) :
         presentQueue[k].wait.slot = presentQueue[k].frame % FRAME_OVERLAP

\* A call of draw() has come back to the slot of the first call and has
\* submitted and presented on it.
C11_Witness ==
    /\ pc = "draw_advance"
    /\ Len(slotLog) = FRAME_OVERLAP + 1
    /\ slotLog[Len(slotLog)] = slotLog[1]
    /\ slotsUsed = {slotLog[1]}

\* The resources a sequence of destruction calls names.
Elems(s) == {s[k] : k \in 1 .. Len(s)}

\* A flush of queue q that turned the destruction calls `before` into
\* `after` left the queue `left` empty, ran every callback of q, and ran a
\* callback registered later before one registered earlier.
FlushedInReverse(q, left, before, after) ==
    /\ left = << >>
    /\ \A i \in 1 .. Len(q) :
         Elems(CallbackDestroys(q[i])) \subseteq (Elems(after) \ Elems(before))
    /\ \A i \in 1 .. Len(q), j \in 1 .. Len(q) :
         i < j => \A x \in Elems(CallbackDestroys(q[i])),
                     y \in Elems(CallbackDestroys(q[j])) : Before(after, y, x)

C12_FlushStep ==
    /\ (pc = "cleanup_flush" /\ pc' # pc) =>
         /\ mainDeletionQueue = << "destroyAllocator", "destroyDrawImage" >>
         /\ FlushedInReverse(mainDeletionQueue, mainDeletionQueue',
                             destroyed, destroyed')
         /\ Before(destroyed', Res("drawImageView"), Res("allocator"))
         /\ Before(destroyed', Res("drawImage"), Res("allocator"))
    /\ (pc = "draw_flush" /\ pc' # pc) =>
         FlushedInReverse(frameDeletionQueue[get_current_frame],
                          frameDeletionQueue'[get_current_frame],
                          destroyed, destroyed')

\* C12: a flush of a deletion queue runs the callbacks in exactly the reverse
\* of their registration order and leaves the queue empty; the flush of the
\* global queue by cleanup() destroys the offscreen image and its view
\* (registered second) before the allocator (registered first).
C12_ReverseFlush == [][C12_FlushStep]_vars

\* cleanup() has flushed the global queue: the image view, the image and then
\* the allocator are destroyed and the queue is empty.
C12_Witness ==
    /\ pc = "cleanup_destroy_swapchain"
    /\ mainDeletionQueue = << >>
    /\ Before(destroyed, Res("drawImage"), Res("allocator"))

\* C13: the layouts are consistent in every frame: the draw callback runs
\* only while the offscreen target is in the general layout; the copy only
\* while the offscreen target is in the copy-source layout and the acquired
\* image in the copy-destination layout; the old layout a transition declares
\* is undefined or the layout the image is in; when present is requested the
\* acquired image was last left in the presentable layout.
C13_LayoutsConsistent ==
    /\ \A e \in recordLog :
         /\ e.op = "clear" =>
              /\ e.image = DrawImage
              /\ e.declared = VK_IMAGE_LAYOUT_GENERAL
              /\ e.actual = VK_IMAGE_LAYOUT_GENERAL
         /\ e.op = "copy_src" =>
              /\ e.image = DrawImage
              /\ e.declared = e.actual
              /\ e.actual = VK_IMAGE_LAYOUT_TRANSFER_SRC_OPTIMAL
         /\ e.op = "copy_dst" =>
              /\ e.image \in Images
              /\ e.declared = e.actual
              /\ e.actual = VK_IMAGE_LAYOUT_TRANSFER_DST_OPTIMAL
         /\ e.op = "transition" =>
              e.declared \in {VK_IMAGE_LAYOUT_UNDEFINED, e.actual}
    /\ pc \in {"draw_EndCommandBuffer", "draw_QueueSubmit2",
               "draw_QueuePresent"} =>
         imageLayout[swapchainImageIndex] = VK_IMAGE_LAYOUT_PRESENT_SRC_KHR
    /\ \A k \in 1 .. Len(presentQueue) :
         imageLayout[presentQueue[k].image] = VK_IMAGE_LAYOUT_PRESENT_SRC_KHR

\* Present is about to be requested in a frame after the first, for an image
\* that was presented before: the frame's first transitions found the
\* offscreen target in the copy-source layout and the acquired image in the
\* presentable layout.
C13_Witness ==
    /\ pc = "draw_QueuePresent"
    /\ frameNumber >= 1
    /\ Noted("transition", DrawImage, VK_IMAGE_LAYOUT_UNDEFINED,
             [i \in LayoutImages |-> VK_IMAGE_LAYOUT_TRANSFER_SRC_OPTIMAL])
         \in recordLog
    /\ \E i \in Images :
         Noted("transition", i, VK_IMAGE_LAYOUT_UNDEFINED,
               [j \in LayoutImages |-> VK_IMAGE_LAYOUT_PRESENT_SRC_KHR])
           \in recordLog

\* C14 as stated: a submission is never given a slot's render-complete
\* semaphore as its signal target while a present request of an earlier frame
\* of that slot still waits on that semaphore.
C14_NoSignalWhilePresentWaits ==
    \A k \in 1 .. Len(graphicsQueue), j \in 1 .. Len(presentQueue) :
      graphicsQueue[k].signal = presentQueue[j].wait =>
        presentQueue[j].frame >= graphicsQueue[k].frame

\* The steps of draw() between the reset of the slot's fence and the
\* submission that signals it.
ResetToSubmitPcs == ReusePcs \ {"draw_ResetFences"}

\* The submissions on the queue that signal slot's fence.
FenceSignals(slot) ==
    {k \in 1 .. Len(graphicsQueue) : graphicsQueue[k].fence = slot}

\* Each slot's fence is created signaled; at most one submission that signals
\* a slot's fence is pending; outside the steps from the reset to the submit
\* of the current slot, a fence that is not signaled has a pending submission
\* that will signal it.
C15_FenceOrPending ==
    /\ (pc \in {"run_while", "run_poll", "run_check"} /\ slotLog = << >>) =>
         \A s \in Slots : renderFence[s]
    /\ \A s \in Slots : Cardinality(FenceSignals(s)) <= 1
    /\ (isInitialized /\ Alive) =>
         \A s \in Slots :
           \/ renderFence[s]
           \/ FencePending(s)
           \/ pc \in ResetToSubmitPcs /\ s = get_current_frame

C16_BoundedInFlight ==
    /\ Len(graphicsQueue) <= FRAME_OVERLAP
    /\ \A s \in Slots :
         Cardinality({k \in 1 .. Len(graphicsQueue) :
                        graphicsQueue[k].cmd = s}) <= 1
    /\ pc \in (DrawPcs \ {"draw_WaitForFences"}) =>
         \A k \in 1 .. Len(graphicsQueue) :
           graphicsQueue[k].frame > frameNumber - FRAME_OVERLAP

\* The CPU records a frame on a reused slot while the frame before it is
\* executing on the GPU.
C16_Witness ==
    /\ pc = "draw_record"
    /\ frameNumber >= FRAME_OVERLAP
    /\ \E k \in 1 .. Len(graphicsQueue) :
         /\ graphicsQueue[k].frame = frameNumber - 1
         /\ graphicsQueue[k].state = "executing"

\* C17 as stated: draw() is not invoked once a quit event has been processed.
C17_NoDrawAfterQuit == bQuit => pc \notin DrawPcs

\* The loop has been left: run() has returned, or the process was aborted.
RunLeft == pc \in CleanupPcs \cup {"exit", "aborted"}

\* Once bQuit is set it stays set; no new poll batch begins; draw() is entered
\* only from the check that follows the poll batch, and only when rendering
\* is not stopped; draw() and the sleep return to the loop head, which leaves
\* the loop.
C17_QuitStep ==
    bQuit =>
      /\ bQuit'
      /\ (pc # "run_poll" => pc' # "run_poll")
      /\ (pc # "draw_WaitForFences" /\ pc' = "draw_WaitForFences") =>
           (pc = "run_check" /\ ~stop_rendering /\ ~minimized)
      /\ (pc = "run_check" /\ pc' # pc) =>
           pc' = (IF stop_rendering THEN "run_sleep" ELSE "draw_WaitForFences")
      /\ (pc \in {"draw_advance", "run_sleep"} /\ pc' # pc) => pc' = "run_while"
      /\ (pc = "run_while" /\ pc' # pc) => pc' = "cleanup"

\* C17 amended: once a quit event has been polled run() terminates: it
\* handles the rest of the poll batch, invokes draw() at most once more (not
\* at all when the window is minimized at the end of the batch) and leaves
\* the loop at the next test of bQuit.
C17_QuitTerminates ==
    /\ [][C17_QuitStep]_vars
    /\ (bQuit /\ frameNumber < MaxFrames) ~> RunLeft

\* draw() runs after a quit event was polled.
C17_Witness ==
    /\ bQuit
    /\ pc = "draw_QueueSubmit2"
    /\ frameNumber >= 1

\* C18 as stated: at most one engine is initialised at any time; Get() refers
\* to an engine whose init() was called and whose cleanup() was not; a
\* cleanup() of another object leaves the engine Get() returns as it was.
C18_SingleLoadedEngine ==
    /\ Cardinality({e \in Engines : objects[e].live}) <= 1
    /\ loadedEngine # "nullptr" => objects[loadedEngine].live
    /\ \A e \in Engines : objects[e].live => loadedEngine = e

\* C19 as stated: cleanup() on an object whose init() never completed, and a
\* second cleanup() on an object already cleaned up, make no destruction
\* call.
C19_CleanupIdempotent ==
    \A e \in Engines :
      /\ ~objects[e].again
      /\ ~objects[e].isInitialized => objects[e].destroyed = << >>

Next ==
    \/ init
    \/ init_vulkan
    \/ init_swapchain
    \/ init_commands
    \/ init_sync_structures
    \/ run_while
    \/ run_poll_event
    \/ run_poll_empty
    \/ run_check
    \/ run_sleep
    \/ draw_WaitForFences
    \/ draw_flush
    \/ draw_ResetFences
    \/ draw_AcquireNextImage
    \/ draw_ResetCommandBuffer
    \/ draw_BeginCommandBuffer
    \/ draw_record
    \/ draw_EndCommandBuffer
    \/ draw_QueueSubmit2
    \/ draw_QueuePresent
    \/ draw_advance
    \/ AcquireSignal
    \/ GpuBegin
    \/ GpuFinish
    \/ PresentEngine
    \/ cleanup
    \/ cleanup_DeviceWaitIdle
    \/ cleanup_frames
    \/ cleanup_flush
    \/ cleanup_destroy_swapchain
    \/ cleanup_device
    \/ cleanup_clear

Spec == Init /\ [][Next]_vars

\* The GPU and the presentation engine complete what they are handed: a
\* pending semaphore signal is made, a submission whose wait is satisfied
\* starts, a started submission finishes.
GpuFairness ==
    /\ WF_vars(AcquireSignal)
    /\ WF_vars(GpuBegin)
    /\ WF_vars(GpuFinish)

\* The frame loop with a GPU that makes progress; the control thread may be
\* held in a call for any time.
GpuFairSpec == Spec /\ GpuFairness

\* A step of the control thread in run() or draw() other than the handling
\* of one more polled event.
RunStep ==
    \/ run_while
    \/ run_poll_empty
    \/ run_check
    \/ run_sleep
    \/ draw_WaitForFences
    \/ draw_flush
    \/ draw_ResetFences
    \/ draw_AcquireNextImage
    \/ draw_ResetCommandBuffer
    \/ draw_BeginCommandBuffer
    \/ draw_record
    \/ draw_EndCommandBuffer
    \/ draw_QueueSubmit2
    \/ draw_QueuePresent
    \/ draw_advance

\* The frame loop with a control thread that keeps running (every call it
\* makes returns, the event queue runs empty) and a GPU that makes progress.
LoopFairSpec == Spec /\ GpuFairness /\ WF_vars(RunStep)

\* The client program: its objects as constructed, no engine loaded.
ClientInit == pc = "client" /\ InitVars

ClientNext ==
    \E e \in Engines :
      \/ VulkanEngine_init(e)
      \/ VulkanEngine_cleanup(e)

ClientSpec == ClientInit /\ [][ClientNext]_vars

=============================================================================
